---------------------------- MODULE Spec2Model ----------------------------
(***************************************************************************)
(* Model of src/src/marathon/marathon.rs: the two marathon mergers         *)
(* concat_beatmaps (spec: merge_with_gap) and                              *)
(* concat_beatmaps_with_transitions (spec: merge_with_transitions), and    *)
(* the duration calculator get_beatmap_duration they share.                *)
(*                                                                         *)
(* Times are f64 milliseconds in the source.  They are integers here, so   *)
(* every statement below is one of exact arithmetic: rounding and NaN are  *)
(* outside the model.                                                      *)
(*                                                                         *)
(* A Beatmap is the record                                                 *)
(*   [version, hit_objects, control_points: [timing_points, effect_points, *)
(*    difficulty_points, sample_points]]                                   *)
(* a hit object is [start_time, kind] with kind [type |-> "Circle"] or     *)
(* [type |-> "Hold", duration |-> d], and a control point is               *)
(* [time, value], value standing for the fields the mergers never touch.   *)
(***************************************************************************)
EXTENDS Integers, Sequences, FiniteSets, Bags, TLC

VARIABLES
    beatmaps,      \* the Vec<Beatmap> the caller holds
    pc,            \* "ready" | "returned" | "panicked"
    op,            \* the function called: "none" or its name
    gap_ms,        \* Option<f64> argument of concat_beatmaps: None or Some(g)
    transitions,   \* Option<Vec<f64>> argument of concat_beatmaps_with_transitions
    arg,           \* index of the beatmap handed to get_beatmap_duration (0: none)
    result,        \* Some(the Beatmap returned), None when none was
    duration,      \* Some(the f64 get_beatmap_duration returned), None when none was
    panic,         \* the halting condition raised ("none" when none was)
    shifts         \* the values of current_time_offset the call shifted by, one
                   \* for each beatmap after the first, in loop order

vars == <<beatmaps, pc, op, gap_ms, transitions, arg, result, duration, panic, shifts>>

-----------------------------------------------------------------------------
(* Bounds of the model. *)

\* Most beatmaps in the input vector.
MaxCharts == 3
\* Most timed entries (hit objects and control points) in the whole input.
MaxEntries == 2

\* Option<T>: None, or Some(x); the absent return value is None too.
None == <<>>
Some(x) == <<x>>

\* The hit objects an input beatmap is made of: circles before, at and after
\* time 0, a hold that ends after it starts and one that ends before it starts.
HitObjects ==
    {[start_time |-> -1, kind |-> [type |-> "Circle"]],
     [start_time |-> 1, kind |-> [type |-> "Circle"]],
     [start_time |-> 0, kind |-> [type |-> "Hold", duration |-> 2]],
     [start_time |-> 1, kind |-> [type |-> "Hold", duration |-> -3]]}
\* The control points an input beatmap is made of; value stands for the fields
\* the mergers never touch.
ControlPoints == {[time |-> 0, value |-> "a"], [time |-> 1, value |-> "b"]}
\* The four control-point vectors of a beatmap.
ControlVectors == {"timing_points", "effect_points", "difficulty_points", "sample_points"}
\* Values of a supplied gap and of a supplied transition.
Gaps == {-1, 2}
\* version of the beatmap at each position of the input vector.
Versions == <<"Easy", "Normal", "Hard", "Insane", "Expert">>

\* The input is drawn entry by entry: entry j has the value vals[j] and lies in
\* the beatmap at[j], in its hit_objects when it is a hit object and in its
\* control-point vector `vector` when it is a control point. One input populates
\* one of the four control-point vectors.
EntriesOf(at, vals, k, S) ==
    LET F[j \in 0..Len(at)] ==
            IF j = 0 THEN <<>>
            ELSE IF at[j] = k /\ vals[j] \in S THEN Append(F[j - 1], vals[j]) ELSE F[j - 1]
    IN  F[Len(at)]

MakeBeatmap(k, at, vals, vector) ==
    [version |-> <<Versions[k]>>,
     hit_objects |-> EntriesOf(at, vals, k, HitObjects),
     control_points |->
        [v \in ControlVectors |->
            IF v = vector THEN EntriesOf(at, vals, k, ControlPoints) ELSE <<>>]]

\* Each input is drawn once: beatmap by beatmap, hit objects before control points.
Canonical(at, vals) ==
    \A j \in 1..(Len(at) - 1) :
        \/ at[j] < at[j + 1]
        \/ at[j] = at[j + 1] /\ (vals[j] \in HitObjects \/ vals[j + 1] \in ControlPoints)

\* The transition vectors a caller may supply for n beatmaps: every vector of
\* the right length, and the zero vector of every length up to MaxCharts.
TransitionVecs(n) ==
    [1..(n - 1) -> Gaps] \cup {[j \in 1..m |-> 0] : m \in 0..MaxCharts}

-----------------------------------------------------------------------------
(* get_beatmap_duration, marathon.rs 79-98 *)

Max(a, b) == IF a >= b THEN a ELSE b

\* A slip in lines 87-92: the Hold arm forgotten, every hit object instantaneous.
EndTime_StartOnly(hit_object) == hit_object.start_time

\* lines 87-92: the end time of one hit object
EndTime(hit_object) ==
    IF hit_object.kind.type = "Hold"
    THEN hit_object.start_time + hit_object.kind.duration
    ELSE hit_object.start_time

\* line 84: let mut max_time: f64 = 0.0
InitialMaxTime == 0

\* lines 84-97: the fold of max over the hit objects, from InitialMaxTime
MaxTimeLoop(hit_objects) ==
    LET F[i \in 0..Len(hit_objects)] ==
            IF i = 0 THEN InitialMaxTime ELSE Max(F[i - 1], EndTime(hit_objects[i]))
    IN  F[Len(hit_objects)]

get_beatmap_duration(beatmap) ==
    IF Len(beatmap.hit_objects) = 0 THEN 0 ELSE MaxTimeLoop(beatmap.hit_objects)

-----------------------------------------------------------------------------
(* The shift-and-append body shared by both loops, and the final sorts *)

\* hit_object.start_time += current_time_offset (lines 31, 133)
ShiftHitObject(hit_object, offset) ==
    [hit_object EXCEPT !.start_time = @ + offset]

\* point.time += current_time_offset (lines 37, 43, 49, 55, 138-153)
ShiftControlPoint(point, offset) ==
    [point EXCEPT !.time = @ + offset]

ShiftedHitObjects(s, offset) == [j \in 1..Len(s) |-> ShiftHitObject(s[j], offset)]
ShiftedControlPoints(s, offset) == [j \in 1..Len(s) |-> ShiftControlPoint(s[j], offset)]

\* A slip in lines 30-57: the sample points of the appended beatmap left out.
AppendShifted_DropsSamplePoints(res, beatmap, offset) ==
    [res EXCEPT
       !.hit_objects = @ \o ShiftedHitObjects(beatmap.hit_objects, offset),
       !.control_points.timing_points =
           @ \o ShiftedControlPoints(beatmap.control_points.timing_points, offset),
       !.control_points.effect_points =
           @ \o ShiftedControlPoints(beatmap.control_points.effect_points, offset),
       !.control_points.difficulty_points =
           @ \o ShiftedControlPoints(beatmap.control_points.difficulty_points, offset)]

\* lines 30-57 and 132-155: one loop body without its offset bookkeeping
AppendShifted(res, beatmap, offset) ==
    [res EXCEPT
       !.hit_objects = @ \o ShiftedHitObjects(beatmap.hit_objects, offset),
       !.control_points.timing_points =
           @ \o ShiftedControlPoints(beatmap.control_points.timing_points, offset),
       !.control_points.effect_points =
           @ \o ShiftedControlPoints(beatmap.control_points.effect_points, offset),
       !.control_points.difficulty_points =
           @ \o ShiftedControlPoints(beatmap.control_points.difficulty_points, offset),
       !.control_points.sample_points =
           @ \o ShiftedControlPoints(beatmap.control_points.sample_points, offset)]

\* The time a collection is sorted on: start_time of a hit object, time of a
\* control point (the closures of lines 64-70 and 161-165).
TimeOf(e) == IF "start_time" \in DOMAIN e THEN e.start_time ELSE e.time

\* A slip in lines 64-70: an unstable sort, x going before the entries of its
\* own time.
InsertByTime_BeforeEquals(sorted, x) ==
    LET n == Cardinality({j \in 1..Len(sorted) : TimeOf(sorted[j]) < TimeOf(x)})
    IN  SubSeq(sorted, 1, n) \o <<x>> \o SubSeq(sorted, n + 1, Len(sorted))

\* slice::sort_by is a stable sort: x goes behind every entry not later than it.
InsertByTime(sorted, x) ==
    LET n == Cardinality({j \in 1..Len(sorted) : TimeOf(sorted[j]) <= TimeOf(x)})
    IN  SubSeq(sorted, 1, n) \o <<x>> \o SubSeq(sorted, n + 1, Len(sorted))

\* A slip in lines 64-70: the sort left out.
SortByTime_Skipped(s) == s

SortByTime(s) ==
    LET F[i \in 0..Len(s)] == IF i = 0 THEN <<>> ELSE InsertByTime(F[i - 1], s[i])
    IN  F[Len(s)]

\* lines 64-70 and 161-165
SortAll(res) ==
    [res EXCEPT
       !.control_points.timing_points = SortByTime(@),
       !.control_points.effect_points = SortByTime(@),
       !.control_points.difficulty_points = SortByTime(@),
       !.control_points.sample_points = SortByTime(@),
       !.hit_objects = SortByTime(@)]

\* format!("{} Marathon ({} maps)", result.version, beatmaps.len()); a version
\* is the sequence of its pieces
MarathonVersion(version, n) == version \o <<" Marathon (", ToString(n), " maps)">>

\* lines 73 and 167
Relabel(res, n) == [res EXCEPT !.version = MarathonVersion(@, n)]

\* What a call leaves behind: a returned beatmap with the offsets its loop
\* shifted by, or a panic and nothing else.
Returned(b, offsets) == [pc |-> "returned", result |-> Some(b), panic |-> "none", shifts |-> offsets]
Panicked(why) == [pc |-> "panicked", result |-> None, panic |-> why, shifts |-> <<>>]

-----------------------------------------------------------------------------
(* concat_beatmaps, marathon.rs 11-76 *)

\* line 16: gap_ms.unwrap_or(0.0)
UnwrapGap(g) == IF g = None THEN 0 ELSE g[1]

\* A slip in line 25: the gap after the first beatmap forgotten.
GapInitialOffset_NoGap(first, gap) == get_beatmap_duration(first)

\* line 25: the offset before the loop
GapInitialOffset(first, gap) == get_beatmap_duration(first) + gap

\* A slip in line 60: the gap after a later beatmap forgotten.
GapAdvance_NoGap(offset, beatmap, gap) == offset + get_beatmap_duration(beatmap)

\* line 60: the offset after a beatmap was appended
GapAdvance(offset, beatmap, gap) == offset + get_beatmap_duration(beatmap) + gap

\* lines 25-61: the state [result, current_time_offset] after the iterations up
\* to beatmap i (i = 1: before the loop)
GapLoop(bs, gap) ==
    LET F[i \in 1..Len(bs)] ==
            IF i = 1
            THEN [result |-> bs[1], shifts |-> <<>>,
                  current_time_offset |-> GapInitialOffset(bs[1], gap)]
            ELSE LET prev == F[i - 1]
                     shift == prev.current_time_offset
                 IN  [result |-> AppendShifted(prev.result, bs[i], shift),
                      shifts |-> Append(prev.shifts, shift),
                      current_time_offset |-> GapAdvance(shift, bs[i], gap)]
    IN  F[Len(bs)]

\* A slip in lines 20-22: no shortcut for a single beatmap, which is sorted and
\* relabelled like a merge.
concat_beatmaps_NoShortcut(bs, g) ==
    IF Len(bs) = 0 THEN Panicked("EmptyInput")
    ELSE LET end == GapLoop(bs, UnwrapGap(g))
         IN  Returned(Relabel(SortAll(end.result), Len(bs)), end.shifts)

concat_beatmaps(bs, g) ==
    IF Len(bs) = 0 THEN Panicked("EmptyInput")
    ELSE IF Len(bs) = 1 THEN Returned(bs[1], <<>>)
    ELSE LET end == GapLoop(bs, UnwrapGap(g))
         IN  Returned(Relabel(SortAll(end.result), Len(bs)), end.shifts)

-----------------------------------------------------------------------------
(* concat_beatmaps_with_transitions, marathon.rs 108-170 *)

\* line 113: transitions.unwrap_or_else(|| vec![0.0; beatmaps.len() - 1])
UnwrapTransitions(ts, n) == IF ts = None THEN [j \in 1..(n - 1) |-> 0] ELSE ts[1]

\* line 115
TransitionCountOk(ts, n) == Len(ts) = n - 1

\* A slip in line 129: the transition never added.
TransitionOffset_Skipped(offset, ts, i) == offset

\* line 129: the offset the i-th beatmap (i >= 2) is shifted by
TransitionOffset(offset, ts, i) == offset + ts[i - 1]

\* line 157
TransitionAdvance(offset, beatmap) == offset + get_beatmap_duration(beatmap)

\* lines 125-158
TransitionLoop(bs, ts) ==
    LET F[i \in 1..Len(bs)] ==
            IF i = 1
            THEN [result |-> bs[1], shifts |-> <<>>,
                  current_time_offset |-> get_beatmap_duration(bs[1])]
            ELSE LET prev == F[i - 1]
                     shift == TransitionOffset(prev.current_time_offset, ts, i)
                 IN  [result |-> AppendShifted(prev.result, bs[i], shift),
                      shifts |-> Append(prev.shifts, shift),
                      current_time_offset |-> TransitionAdvance(shift, bs[i])]
    IN  F[Len(bs)]

\* A slip in lines 115-123: the single-beatmap shortcut taken before the
\* transitions are counted.
concat_beatmaps_with_transitions_ShortcutFirst(bs, t) ==
    IF Len(bs) = 0 THEN Panicked("EmptyInput")
    ELSE IF Len(bs) = 1 THEN Returned(bs[1], <<>>)
    ELSE LET ts == UnwrapTransitions(t, Len(bs))
         IN  IF ~TransitionCountOk(ts, Len(bs)) THEN Panicked("TransitionCountMismatch")
             ELSE LET end == TransitionLoop(bs, ts)
                  IN  Returned(Relabel(SortAll(end.result), Len(bs)), end.shifts)

\* A slip in lines 109-117: the transitions counted before the vector of
\* beatmaps is found empty.
concat_beatmaps_with_transitions_CountFirst(bs, t) ==
    LET ts == UnwrapTransitions(t, Len(bs))
    IN  IF ~TransitionCountOk(ts, Len(bs)) THEN Panicked("TransitionCountMismatch")
        ELSE IF Len(bs) = 0 THEN Panicked("EmptyInput")
        ELSE IF Len(bs) = 1 THEN Returned(bs[1], <<>>)
        ELSE LET end == TransitionLoop(bs, ts)
             IN  Returned(Relabel(SortAll(end.result), Len(bs)), end.shifts)

concat_beatmaps_with_transitions(bs, t) ==
    IF Len(bs) = 0 THEN Panicked("EmptyInput")
    ELSE LET ts == UnwrapTransitions(t, Len(bs))
         IN  IF ~TransitionCountOk(ts, Len(bs)) THEN Panicked("TransitionCountMismatch")
             ELSE IF Len(bs) = 1 THEN Returned(bs[1], <<>>)
             ELSE LET end == TransitionLoop(bs, ts)
                  IN  Returned(Relabel(SortAll(end.result), Len(bs)), end.shifts)

-----------------------------------------------------------------------------
(* The state machine: a caller holding a vector of beatmaps makes one call *)

Init ==
    /\ \E n \in 0..MaxCharts, t \in 0..MaxEntries, vector \in ControlVectors :
         \E at \in {a \in [1..t -> 1..n] : \A j \in 1..(t - 1) : a[j] <= a[j + 1]} :
            \E vals \in [1..t -> HitObjects \cup ControlPoints] :
               /\ Canonical(at, vals)
               /\ beatmaps = [k \in 1..n |-> MakeBeatmap(k, at, vals, vector)]
    /\ pc = "ready"
    /\ op = "none"
    /\ gap_ms = None
    /\ transitions = None
    /\ arg = 0
    /\ result = None
    /\ duration = None
    /\ panic = "none"
    /\ shifts = <<>>

CallConcatBeatmaps ==
    /\ pc = "ready"
    /\ \E g \in {None} \cup {Some(x) : x \in Gaps} :
         LET out == concat_beatmaps(beatmaps, g)
         IN  /\ gap_ms' = g
             /\ pc' = out.pc
             /\ result' = out.result
             /\ panic' = out.panic
             /\ shifts' = out.shifts
    /\ op' = "concat_beatmaps"
    /\ UNCHANGED <<beatmaps, transitions, arg, duration>>

CallConcatBeatmapsWithTransitions ==
    /\ pc = "ready"
    /\ \E t \in {None} \cup {Some(x) : x \in TransitionVecs(Len(beatmaps))} :
         LET out == concat_beatmaps_with_transitions(beatmaps, t)
         IN  /\ transitions' = t
             /\ pc' = out.pc
             /\ result' = out.result
             /\ panic' = out.panic
             /\ shifts' = out.shifts
    /\ op' = "concat_beatmaps_with_transitions"
    /\ UNCHANGED <<beatmaps, gap_ms, arg, duration>>

CallGetBeatmapDuration ==
    /\ pc = "ready"
    /\ \E k \in 1..Len(beatmaps) :
         /\ arg' = k
         /\ duration' = Some(get_beatmap_duration(beatmaps[k]))
    /\ pc' = "returned"
    /\ op' = "get_beatmap_duration"
    /\ UNCHANGED <<beatmaps, gap_ms, transitions, result, panic, shifts>>

Next ==
    \/ CallConcatBeatmaps
    \/ CallConcatBeatmapsWithTransitions
    \/ CallGetBeatmapDuration

Spec == Init /\ [][Next]_vars

-----------------------------------------------------------------------------
(* Vocabulary of the properties *)

N == Len(beatmaps)
Merger == op \in {"concat_beatmaps", "concat_beatmaps_with_transitions"}
Merged == Merger /\ pc = "returned"

\* The five timed collections of a beatmap.
Collections == {"hit_objects"} \cup ControlVectors
Coll(b, c) == IF c = "hit_objects" THEN b.hit_objects ELSE b.control_points[c]

\* The time field of an entry, its time, the entry moved by d, and the entry
\* without its time field.
TimeField(e) == IF "start_time" \in DOMAIN e THEN "start_time" ELSE "time"
At(e) == e[TimeField(e)]
Moved(e, d) == [e EXCEPT ![TimeField(e)] = @ + d]
Untimed(e) == [f \in DOMAIN e \ {TimeField(e)} |-> e[f]]

NonDecreasing(s) == \A i \in 1..(Len(s) - 1) : At(s[i]) <= At(s[i + 1])

\* s and t hold the same entries the same number of times; t holds every entry
\* of s at least as often as s does.
Count(s, x) == Cardinality({i \in DOMAIN s : s[i] = x})
Range(s) == {s[i] : i \in DOMAIN s}
SameEntries(s, t) == \A x \in Range(s) \cup Range(t) : Count(s, x) = Count(t, x)
HoldsEntriesOf(t, s) == \A x \in Range(s) : Count(s, x) <= Count(t, x)

\* The end time of a hit object as the specification defines it.
EndOf(h) == IF h.kind.type = "Hold" THEN h.start_time + h.kind.duration ELSE h.start_time
Greatest(S) == CHOOSE x \in S : \A y \in S : y <= x

\* Collection c of every input beatmap in input order, the entries of beatmap k
\* moved by off[k].
InputMoved(c, off) ==
    LET F[k \in 0..N] ==
            IF k = 0 THEN <<>>
            ELSE F[k - 1] \o [j \in DOMAIN Coll(beatmaps[k], c) |-> Moved(Coll(beatmaps[k], c)[j], off[k])]
    IN  F[N]
InputUntimed(c) ==
    LET F[k \in 0..N] ==
            IF k = 0 THEN <<>>
            ELSE F[k - 1] \o [j \in DOMAIN Coll(beatmaps[k], c) |-> Untimed(Coll(beatmaps[k], c)[j])]
    IN  F[N]

\* The sum of the computed durations of the beatmaps before the k-th.
DurationsBefore(k) ==
    LET F[i \in 0..N] == IF i = 0 THEN 0 ELSE F[i - 1] + get_beatmap_duration(beatmaps[i])
    IN  F[k - 1]

\* The gap of the call (0 when omitted) and its transitions (zeros when omitted).
TheGap == IF gap_ms = None THEN 0 ELSE gap_ms[1]
TheTransitions == IF transitions = None THEN [j \in 1..(N - 1) |-> 0] ELSE transitions[1]
TransitionsBefore(k) ==
    LET F[i \in 0..(N - 1)] == IF i = 0 THEN 0 ELSE F[i - 1] + TheTransitions[i]
    IN  F[k - 1]

\* The offsets the specification gives the k-th beatmap (k = 1 for the first).
GapOffset(k) == DurationsBefore(k) + (k - 1) * TheGap
TransitionsOffset(k) == DurationsBefore(k) + TransitionsBefore(k)

\* The offset the call shifted the k-th beatmap by.
ShiftOf(k) == IF k = 1 THEN 0 ELSE shifts[k - 1]

-----------------------------------------------------------------------------
(* C1 *)

DurationReturned == op = "get_beatmap_duration" /\ pc = "returned"
EndTimesOfArg == {EndOf(beatmaps[arg].hit_objects[j]) : j \in DOMAIN beatmaps[arg].hit_objects}

-----------------------------------------------------------------------------
(* C2 *)

\* C2 as stated: after either merger returns, for any non-empty input (a single
\* chart with unsorted collections included), each of the five collections of
\* the result is sorted by non-decreasing time.
C2_ResultSorted ==
    Merged => \A c \in Collections : NonDecreasing(Coll(result[1], c))

\* C2 amended: after either merger returns for two or more charts, each of the
\* five collections of the result is sorted by non-decreasing time; a single
\* chart is returned as it is, so a collection of its result is sorted when that
\* collection of the input chart was.
C2_ResultSortedFromTwoCharts ==
    Merged =>
        \A c \in Collections :
            (N >= 2 \/ NonDecreasing(Coll(beatmaps[1], c))) => NonDecreasing(Coll(result[1], c))

\* Two charts were merged whose entries, shifted and appended, were out of order.
C2_SortHadWork ==
    /\ Merged
    /\ N >= 2
    /\ \E c \in Collections :
         ~NonDecreasing(InputMoved(c, [k \in 1..N |-> ShiftOf(k)]))

-----------------------------------------------------------------------------
(* C3 *)

\* C3: merging is append-only. After either merger returns, each of the five
\* collections of the result has as many entries as the inputs have together,
\* its entries without their time field are the inputs' entries without theirs
\* (one for one, so kind and hold duration are kept), and the entries of the
\* first chart are in it with their time unchanged.
C3_AppendOnly ==
    Merged =>
        \A c \in Collections :
            LET merged == Coll(result[1], c)
                inputs == InputUntimed(c)
            IN  /\ Len(merged) = Len(inputs)
                /\ SameEntries([j \in DOMAIN merged |-> Untimed(merged[j])], inputs)
                /\ HoldsEntriesOf(merged, Coll(beatmaps[1], c))

\* A merge moved a hold of a later chart and appended control points.
C3_HoldAndControlPointAppended ==
    /\ Merged
    /\ \E k \in 2..N :
         /\ ShiftOf(k) # 0
         /\ \E j \in DOMAIN beatmaps[k].hit_objects : beatmaps[k].hit_objects[j].kind.type = "Hold"
    /\ \E c \in ControlVectors : Len(Coll(result[1], c)) >= 1

-----------------------------------------------------------------------------
(* C4 *)

GapMerged == op = "concat_beatmaps" /\ pc = "returned" /\ N >= 2

\* C4: when concat_beatmaps returns for two or more charts with gap g (0 when
\* omitted), the k-th chart (the first being k = 0) was shifted by the sum of
\* the computed durations of the charts before it plus k * g, and each of the
\* five collections of the result holds exactly the input entries of every
\* chart with that chart's offset added to their time.
C4_GapOffsets ==
    GapMerged =>
        /\ Len(shifts) = N - 1
        /\ \A k \in 2..N : ShiftOf(k) = GapOffset(k)
        /\ \A c \in Collections :
             SameEntries(Coll(result[1], c), InputMoved(c, [k \in 1..N |-> GapOffset(k)]))

\* Three charts were merged with a non-zero gap, the first two of non-zero
\* duration.
C4_ThreeChartsWithGap ==
    /\ GapMerged
    /\ N = 3
    /\ TheGap # 0
    /\ get_beatmap_duration(beatmaps[1]) > 0
    /\ get_beatmap_duration(beatmaps[2]) > 0
    /\ ShiftOf(3) = get_beatmap_duration(beatmaps[1]) + get_beatmap_duration(beatmaps[2]) + 2 * TheGap

-----------------------------------------------------------------------------
(* C5 *)

TransitionsMerged == op = "concat_beatmaps_with_transitions" /\ pc = "returned" /\ N >= 2

\* C5: when concat_beatmaps_with_transitions returns for two or more charts with
\* transitions t (zeros when omitted), the k-th chart (k >= 1, the first being
\* k = 0) was shifted by the sum of the computed durations of the charts before
\* it plus t[0] + ... + t[k-1], and each of the five collections of the result
\* holds exactly the input entries of every chart with that chart's offset added
\* to their time.
C5_TransitionOffsets ==
    TransitionsMerged =>
        /\ Len(shifts) = N - 1
        /\ \A k \in 2..N : ShiftOf(k) = TransitionsOffset(k)
        /\ \A c \in Collections :
             SameEntries(Coll(result[1], c), InputMoved(c, [k \in 1..N |-> TransitionsOffset(k)]))

\* Three charts were merged with two different transitions, the second chart of
\* non-zero duration and the third not empty.
C5_ThreeChartsWithTransitions ==
    /\ TransitionsMerged
    /\ N = 3
    /\ transitions # None
    /\ TheTransitions[1] # TheTransitions[2]
    /\ get_beatmap_duration(beatmaps[2]) > 0
    /\ \E c \in Collections : Len(Coll(beatmaps[3], c)) > 0

-----------------------------------------------------------------------------
(* C6 *)

\* C6: called on N >= 1 charts, concat_beatmaps_with_transitions halts with
\* TransitionCountMismatch, returning nothing, exactly when transitions are
\* supplied and their number is not N - 1 (a single chart with a non-empty
\* transition vector included); concat_beatmaps never halts with it.
C6_TransitionCountMismatch ==
    /\ (op = "concat_beatmaps_with_transitions" /\ N >= 1) =>
          /\ (panic = "TransitionCountMismatch") <=>
                (transitions # None /\ Len(transitions[1]) # N - 1)
          /\ (panic = "TransitionCountMismatch") => (pc = "panicked" /\ result = None)
    /\ op = "concat_beatmaps" => panic # "TransitionCountMismatch"

\* A single chart was handed over with a non-empty transition vector, and the
\* call halted.
C6_SingleChartMismatch ==
    /\ op = "concat_beatmaps_with_transitions"
    /\ N = 1
    /\ transitions # None
    /\ Len(transitions[1]) > 0
    /\ panic = "TransitionCountMismatch"

-----------------------------------------------------------------------------
(* C7 *)

\* C7: called on an empty chart vector, either merger halts with EmptyInput
\* whatever gap or transition vector is supplied, and returns nothing; neither
\* halts with EmptyInput on a non-empty vector.
C7_EmptyInput ==
    Merger =>
        /\ (N = 0) => (pc = "panicked" /\ panic = "EmptyInput" /\ result = None /\ shifts = <<>>)
        /\ (panic = "EmptyInput") => (N = 0)

\* concat_beatmaps_with_transitions halted with EmptyInput although a non-empty
\* transition vector was supplied.
C7_EmptyInputWithTransitions ==
    /\ op = "concat_beatmaps_with_transitions"
    /\ N = 0
    /\ transitions # None
    /\ Len(transitions[1]) > 0
    /\ panic = "EmptyInput"

-----------------------------------------------------------------------------
(* C8 *)

\* C8: called on exactly one chart, concat_beatmaps (with any gap) and
\* concat_beatmaps_with_transitions (with omitted or empty transitions) return
\* that chart, equal in every field, its label included; when either returns
\* for N >= 2 charts the label of the result is the first chart's label followed
\* by " Marathon (N maps)".
C8_SingleChartAndLabel ==
    /\ (Merger /\ N = 1 /\ (op = "concat_beatmaps" \/ transitions \in {None, Some(<<>>)})) =>
          (pc = "returned" /\ result = Some(beatmaps[1]))
    /\ (Merged /\ N >= 2) =>
          result[1].version = beatmaps[1].version \o <<" Marathon (", ToString(N), " maps)">>

\* A single chart with two hit elements out of order came back from
\* concat_beatmaps_with_transitions called with an empty transition vector.
C8_SingleUnsortedChartReturned ==
    /\ op = "concat_beatmaps_with_transitions"
    /\ pc = "returned"
    /\ N = 1
    /\ transitions = Some(<<>>)
    /\ ~NonDecreasing(beatmaps[1].hit_objects)
    /\ result = Some(beatmaps[1])

-----------------------------------------------------------------------------
(* C9 *)

\* The transitions that agree with the gap of the call.
AgreeingTransitions == IF gap_ms = None THEN None ELSE Some([j \in 1..(N - 1) |-> gap_ms[1]])

\* C9: on every non-empty chart vector, what concat_beatmaps returned with gap g
\* is what concat_beatmaps_with_transitions returns with g repeated N - 1 times
\* (and with omitted gap, what it returns with omitted transitions): the same
\* label and the same five collections; and what
\* concat_beatmaps_with_transitions returned with omitted transitions is what
\* concat_beatmaps returns with omitted gap.
C9_MergersAgree ==
    /\ (op = "concat_beatmaps" /\ N >= 1) =>
          LET other == concat_beatmaps_with_transitions(beatmaps, AgreeingTransitions)
          IN  other.pc = pc /\ other.result = result /\ other.panic = panic
    /\ (op = "concat_beatmaps_with_transitions" /\ N >= 1 /\ transitions = None) =>
          LET other == concat_beatmaps(beatmaps, None)
          IN  other.pc = pc /\ other.result = result /\ other.panic = panic

\* concat_beatmaps merged three charts with a non-zero gap, the first of
\* non-zero duration, and moved an entry of the third.
C9_GapMergeOfThree ==
    /\ GapMerged
    /\ N = 3
    /\ TheGap # 0
    /\ get_beatmap_duration(beatmaps[1]) > 0
    /\ \E c \in Collections : Len(Coll(beatmaps[3], c)) > 0

-----------------------------------------------------------------------------
(* C10 *)

\* No hit element starts before 0, no hold has a negative duration, and the gap
\* or the transitions of the call are not negative.
NonNegativeCall ==
    /\ \A k \in 1..N : \A j \in DOMAIN beatmaps[k].hit_objects :
         LET h == beatmaps[k].hit_objects[j]
         IN  h.start_time >= 0 /\ (h.kind.type = "Hold" => h.kind.duration >= 0)
    /\ op = "concat_beatmaps" => TheGap >= 0
    /\ op = "concat_beatmaps_with_transitions" => \A j \in 1..(N - 1) : TheTransitions[j] >= 0

\* The number of hit elements of the charts before the k-th.
HitObjectsBefore(k) ==
    LET F[i \in 0..N] == IF i = 0 THEN 0 ELSE F[i - 1] + Len(beatmaps[i].hit_objects)
    IN  F[k - 1]

\* The hit elements of the k-th chart, moved by the offset it was shifted by.
MovedHitObjects(k) ==
    [j \in DOMAIN beatmaps[k].hit_objects |-> Moved(beatmaps[k].hit_objects[j], ShiftOf(k))]

\* C10: when either merger returns for two or more charts and nothing in the
\* call is negative, every hit element of a later chart starts, shifted, at or
\* after the shifted end of every hit element of an earlier chart, and the hit
\* elements of the result are those of the first chart, then those of the
\* second, and so on: the k-th run of the result holds exactly the shifted hit
\* elements of the k-th chart, ties in time included.
C10_BackToBack ==
    (Merged /\ N >= 2 /\ NonNegativeCall) =>
        /\ \A i, k \in 1..N : i < k =>
             \A a \in DOMAIN beatmaps[i].hit_objects, b \in DOMAIN beatmaps[k].hit_objects :
                beatmaps[k].hit_objects[b].start_time + ShiftOf(k)
                    >= EndOf(beatmaps[i].hit_objects[a]) + ShiftOf(i)
        /\ \A k \in 1..N :
             SameEntries(SubSeq(result[1].hit_objects, HitObjectsBefore(k) + 1,
                                HitObjectsBefore(k) + Len(beatmaps[k].hit_objects)),
                         MovedHitObjects(k))

\* With nothing negative, a hold of the second chart was shifted onto the time
\* of a circle of the first.
C10_TieAcrossCharts ==
    /\ Merged
    /\ N >= 2
    /\ NonNegativeCall
    /\ \E a \in DOMAIN beatmaps[1].hit_objects, b \in DOMAIN beatmaps[2].hit_objects :
         /\ beatmaps[1].hit_objects[a].kind.type = "Circle"
         /\ beatmaps[2].hit_objects[b].kind.type = "Hold"
         /\ beatmaps[2].hit_objects[b].start_time + ShiftOf(2) = beatmaps[1].hit_objects[a].start_time

=============================================================================
